---- MODULE Spec2Model ----
(***************************************************************************)
(* Asynchronous multi-fidelity optimiser (async_mqMFES): the bracket of    *)
(* rungs and jobs, the per-budget observation stores, the incumbent store, *)
(* the weights of the surrogate ensemble and the weight learner.           *)
(*                                                                         *)
(* The Worker of litebo.core.distributed: concurrent start_computation     *)
(* calls, the busy flag, the condition variable and the idle timer.        *)
(*                                                                         *)
(* The specifications share the variables:                                 *)
(*   Spec      the coordinator: get_job / choose_next and                  *)
(*             update_observation on one bracket;                          *)
(*   SpecWL    the weight learner update_weight applied to top-fidelity    *)
(*             stores of bounded length;                                   *)
(*   SpecOrder the pure function calculate_preserving_order_num applied to *)
(*             bounded vectors;                                            *)
(*   SpecWarm  the coordinator from construction through the warm-up of    *)
(*             the weight learner;                                         *)
(*   SpecRun   the coordinator with every rand_prob and trials that time   *)
(*             out;                                                        *)
(*   SpecS1    the coordinator after 9 completions at budget 1 (R = 9,     *)
(*             eta = 3);                                                   *)
(*   SpecWorker concurrent start_computation calls on one Worker;          *)
(*   SpecWorkerFair  SpecWorker with every thread scheduled.               *)
(*                                                                         *)
(* Real numbers: losses and predictions are small integers; weights are    *)
(* exact fractions <<num, den>> in lowest terms, <<0, 0>> being numpy's    *)
(* nan (0/0) and <<1, 0>> numpy's inf (x/0, x > 0).                        *)
(***************************************************************************)
EXTENDS Integers, Sequences, FiniteSets, TLC

(* ------------------------------ bounds -------------------------------- *)

\* size of the configuration space the sampler draws from
NumConfigs == 2
\* losses reported by workers are 0..MaxLoss
MaxLoss == 1
\* predictions of a regressor are 0..MaxPred
MaxPred == 1
\* SpecWL: longest top-fidelity store drawn
MaxTop == 3
\* SpecWL: number of update_weight invocations explored
MaxUpdates == 2
\* SpecOrder: longest vector handed to calculate_preserving_order_num
MaxLen == 4
\* longest ranked candidate list the acquisition optimizer returns
MaxCands == 1
\* SpecWarm, SpecS1: jobs issued by get_job in one run
MaxJobs == 4
\* SpecWorker: start_computation calls made on the worker
NumCalls == 2

Losses == 0 .. MaxLoss
PredVals == 0 .. MaxPred

\* construction parameters explored
Rs == {2, 3}
Etas == {2}
RsWL == {2, 4}
WeightMethods == {"rank_loss_p_norm", "rank_loss_prob"}
\* rand_prob in percent
RandProbs == {0, 30, 100}

(* --------------------------- program constants ------------------------- *)

RUNNING == "RUNNING"
COMPLETED == "COMPLETED"
PROMOTED == "PROMOTED"

\* Python's None, for a job's perf and for last_n_iteration
None == -1
power_num == 3
fold_num == 5
sample_num == 100
min_top_data == 3
\* rand_prob in percent: the default 0.3
default_rand_prob == 30
\* the loss recorded for a trial that timed out or failed
MAXINT == 2147483647

VARIABLES
    config_space, R, eta, update_enable, weight_method, rand_prob,
    bracket,
    target_x, target_y,
    incumbent_configs, incumbent_perfs, history_container,
    surrogate_weight, surrogate_train,
    last_n_iteration, weight_update_id, weight_changed_cnt, hist_weights,
    last_call, obs_log, uw, served,
    po_pred, po_true, po_out,
    timeout, busy, timer, pc, timers, results, compute_out, shut_down

cfgVars == <<config_space, R, eta, update_enable, weight_method, rand_prob>>
storeVars == <<target_x, target_y, incumbent_configs, incumbent_perfs,
               history_container, surrogate_train>>
weightVars == <<surrogate_weight, weight_changed_cnt, hist_weights, uw>>
nextVars == <<last_n_iteration, weight_update_id>>
poVars == <<po_pred, po_true, po_out>>
workerVars == <<timeout, busy, timer, pc, timers, results, compute_out, shut_down>>
coordVars == <<cfgVars, bracket, storeVars, weightVars, nextVars, last_call,
               obs_log, served, poVars>>
vars == <<coordVars, workerVars>>

(* ------------------------------ helpers -------------------------------- *)

RECURSIVE Pow(_, _)
Pow(b, e) == IF e = 0 THEN 1 ELSE b * Pow(b, e - 1)

RECURSIVE SumSeq(_)
SumSeq(s) == IF s = <<>> THEN 0 ELSE Head(s) + SumSeq(Tail(s))

SetMax(S) == CHOOSE x \in S : \A y \in S : y <= x
SetMin(S) == CHOOSE x \in S : \A y \in S : x <= y

RECURSIVE SeqsUpTo(_, _)
SeqsUpTo(S, n) ==
    IF n = 0 THEN {<<>>}
    ELSE LET shorter == SeqsUpTo(S, n - 1)
         IN  shorter \cup {Append(s, x) : s \in {t \in shorter : Len(t) = n - 1}, x \in S}

SeqsOfLen(S, n) == {s \in SeqsUpTo(S, n) : Len(s) = n}

(* -------------------- exact fractions for float arithmetic ------------- *)

RECURSIVE GCD(_, _)
GCD(a, b) == IF b = 0 THEN a ELSE GCD(b, a % b)

\* n / d for n, d >= 0 the way numpy divides: 0/0 is nan, x/0 is inf
Rat(n, d) ==
    IF d = 0 THEN <<IF n = 0 THEN 0 ELSE 1, 0>>
    ELSE LET g == GCD(n, d) IN <<n \div g, d \div g>>

RatAdd(a, b) == Rat(a[1] * b[2] + b[1] * a[2], a[2] * b[2])
RatDiv(a, b) == Rat(a[1] * b[2], a[2] * b[1])
RatPow(a, k) == Rat(Pow(a[1], k), Pow(a[2], k))

RECURSIVE RatSum(_)
RatSum(s) == IF s = <<>> THEN <<0, 1>> ELSE RatAdd(Head(s), RatSum(Tail(s)))

(* ------------------------- budget ladder ------------------------------- *)

\* s_max = int(log(R) / log(eta))
RECURSIVE LogFloor(_, _)
LogFloor(r, e) == IF r < e THEN 0 ELSE 1 + LogFloor(r \div e, e)

s_max == LogFloor(R, eta)

\* iterate_r: int(eta ** i) for i = 0 .. s_max
iterate_r == [i \in 1 .. s_max + 1 |-> Pow(eta, i - 1)]

Ladder == {iterate_r[i] : i \in 1 .. s_max + 1}

max_r == iterate_r[s_max + 1]

\* rung k of the model is rung_id k - 1 of the program
get_rung_id(b, n_iteration) == CHOOSE k \in 1 .. Len(b) : b[k].n_iteration = n_iteration

create_bracket ==
    [k \in 1 .. s_max + 1 |-> [n_iteration |-> Pow(eta, k - 1), jobs |-> <<>>, configs |-> {}]]

\* init_weight = [0.] + [1. / s_max] * s_max
default_init_weight == [k \in 1 .. s_max + 1 |-> IF k = 1 THEN <<0, 1>> ELSE Rat(1, s_max)]

\* a user-supplied init_weight of length s_max + 1 that sums to 1
user_init_weight ==
    [k \in 1 .. s_max + 1 |-> IF k = 1 THEN Rat(1, 2) ELSE Rat(1, 2 * s_max)]

WeightsOf(w) == [r \in Ladder |-> w[get_rung_id(create_bracket, r)]]

NoCall == [op |-> "none", config |-> 0, perf |-> None, n_iteration |-> 0,
           ok |-> TRUE, src |-> "none", wl |-> FALSE]
NoUw == [cnt |-> 0, branch |-> "none", n_top |-> 0, old |-> <<>>, p |-> <<>>]

(* ------------------------------ Init ------------------------------------ *)

Calls == 1 .. NumCalls

\* Worker.__init__: timeout as given, no timer, not busy; no call made yet
InitWorker(t) ==
    /\ timeout = t
    /\ timer = None
    /\ busy = FALSE
    /\ pc = [c \in Calls |-> "new"]
    /\ timers = [c \in Calls |-> "none"]
    /\ results = [c \in Calls |-> <<>>]
    /\ compute_out = [c \in Calls |-> "none"]
    /\ shut_down = FALSE

\* no weight update and no call yet
InitCounters ==
    /\ weight_changed_cnt = 0
    /\ hist_weights = <<>>
    /\ last_call = NoCall
    /\ uw = NoUw

\* the fields every specification of the coordinator starts with
InitCommon ==
    /\ InitWorker(None)
    /\ InitCounters

\* nothing issued, nothing observed
InitFresh ==
    /\ bracket = create_bracket
    /\ target_x = [r \in Ladder |-> <<>>]
    /\ target_y = [r \in Ladder |-> <<>>]
    /\ incumbent_configs = <<>>
    /\ incumbent_perfs = <<>>
    /\ history_container = <<>>
    /\ surrogate_train = [r \in Ladder |-> <<>>]
    /\ last_n_iteration = None
    /\ weight_update_id = 0
    /\ obs_log = [r \in Ladder |-> <<>>]
    /\ served = <<>>

InitEmpty ==
    /\ config_space = 1 .. NumConfigs
    /\ InitFresh

InitNoOrder ==
    /\ po_pred = <<>>
    /\ po_true = <<>>
    /\ po_out = <<>>

Init ==
    /\ R \in Rs
    /\ eta \in Etas
    /\ update_enable = TRUE
    /\ weight_method = "rank_loss_p_norm"
    /\ rand_prob = default_rand_prob
    /\ surrogate_weight = WeightsOf(default_init_weight)
    /\ InitEmpty
    /\ InitCommon
    /\ InitNoOrder

(* ----------------------- update_observation ---------------------------- *)

\* `_config == config`
JobMatches(job, config) == job.config = config

\* the first job of the rung whose config matches (the loop breaks there); 0 if none
FindJob(jobs, config) ==
    LET hits == {i \in 1 .. Len(jobs) : JobMatches(jobs[i], config)}
    IN  IF hits = {} THEN 0 ELSE SetMin(hits)

AssertRunningDropped(job) == TRUE

\* `assert _job_status == RUNNING`
AssertRunning(job) == job.status = RUNNING

CompleteJobWithoutPerf(job, perf) == [job EXCEPT !.status = COMPLETED]

CompleteJobWithoutStatus(job, perf) == [job EXCEPT !.perf = perf]

\* job[0] = COMPLETED; job[2] = perf
CompleteJob(job, perf) == [job EXCEPT !.status = COMPLETED, !.perf = perf]

StoreInsertFirst(store, x) == <<x>> \o store

\* target_x[int(n_iteration)].append(config), target_y[...].append(perf)
StoreAppend(store, x) == Append(store, x)

\* `int(n_iteration) == self.R`
IsFullFidelity(n_iteration) == n_iteration = R

\* both assertions of the loop pass: a matching job exists and is RUNNING
ObserveAccepted(config, n_iteration) ==
    LET jobs == bracket[get_rung_id(bracket, n_iteration)].jobs
        i == FindJob(jobs, config)
    IN  i # 0 /\ AssertRunning(jobs[i])

update_observation(config, perf, n_iteration) ==
    LET rung_id == get_rung_id(bracket, n_iteration)
        jobs == bracket[rung_id].jobs
        i == FindJob(jobs, config)
        new_x == StoreAppend(target_x[n_iteration], config)
        new_y == StoreAppend(target_y[n_iteration], perf)
    IN  IF ~ObserveAccepted(config, n_iteration)
        THEN \* AssertionError, raised before anything is written
             \* src tells which assertion failed
             /\ last_call' = [NoCall EXCEPT !.op = "observe", !.ok = FALSE,
                                !.src = IF i = 0 THEN "assert updated"
                                        ELSE "assert _job_status == RUNNING"]
             /\ UNCHANGED <<bracket, storeVars, obs_log>>
        ELSE /\ bracket' = [bracket EXCEPT ![rung_id].jobs[i] = CompleteJob(@, perf)]
             /\ target_x' = [target_x EXCEPT ![n_iteration] = new_x]
             /\ target_y' = [target_y EXCEPT ![n_iteration] = new_y]
             /\ IF IsFullFidelity(n_iteration)
                THEN /\ incumbent_configs' = Append(incumbent_configs, config)
                     /\ incumbent_perfs' = Append(incumbent_perfs, perf)
                     /\ history_container' = Append(history_container, <<config, perf>>)
                ELSE UNCHANGED <<incumbent_configs, incumbent_perfs, history_container>>
             /\ surrogate_train' = [surrogate_train EXCEPT ![n_iteration] = <<new_x, new_y>>]
             /\ obs_log' = [obs_log EXCEPT ![n_iteration] = Append(@, <<config, perf>>)]
             /\ last_call' = [NoCall EXCEPT !.op = "observe", !.config = config,
                                !.perf = perf, !.n_iteration = n_iteration, !.ok = TRUE]

\* a refused observation never reads perf: one value stands for all
Observe ==
    \E config \in config_space, n_iteration \in Ladder :
      \E perf \in (IF ObserveAccepted(config, n_iteration) THEN Losses ELSE {0}) :
        /\ update_observation(config, perf, n_iteration)
        /\ UNCHANGED <<cfgVars, weightVars, nextVars, served, poVars, workerVars>>

(* ------------------------- the weight learner -------------------------- *)

calculate_preserving_order_num(y_pred, y_true) ==
    LET array_size == Len(y_pred)
        pairs == {pr \in (1 .. array_size) \X (1 .. array_size) : pr[1] < pr[2]}
        preserved == {pr \in pairs :
                        (y_true[pr[1]] > y_true[pr[2]]) = (y_pred[pr[1]] > y_pred[pr[2]])}
    IN  <<Cardinality(preserved), Cardinality(pairs)>>

EnoughTopDataOffByOne(test_y) == Len(test_y) >= min_top_data - 1

\* `len(test_y) >= 3`
EnoughTopData(test_y) == Len(test_y) >= min_top_data

\* `len(test_y) < 2 * fold_num`: no cross-validation
TooFewForCV(test_y) == Len(test_y) < 2 * fold_num

\* what a regressor may predict on the n top-fidelity configurations
PredSet(n) == SeqsOfLen(PredVals, n)

\* the results (preorder_num, pair_num) calculate_preserving_order_num can return
\* for the prediction of a regressor on test_x
ReachablePreorder(test_y) ==
    {calculate_preserving_order_num(pr, test_y) : pr \in PredSet(Len(test_y))}

\* rank_loss_p_norm: preserving_order_p, one entry per budget of r_list; nums[i] is
\* the (preorder_num, pair_num) of model i on test_x (i < K), cv_num that of the
\* out-of-fold predictions of the cross-validation
preserving_order_p(nums, cv_num, test_y) ==
    LET K == s_max + 1
    IN  [i \in 1 .. K |->
            IF i # K
            THEN Rat(nums[i][1], nums[i][2])
            ELSE IF TooFewForCV(test_y) THEN <<0, 1>>
                 ELSE Rat(cv_num[1], cv_num[2])]

p_norm_weights_squared(p) ==
    LET pw == [i \in DOMAIN p |-> RatPow(p[i], 2)]
        power_sum == RatSum(pw)
    IN  [i \in DOMAIN p |-> RatDiv(pw[i], power_sum)]

\* new_weights = power(p, power_num) / sum(power(p, power_num))
p_norm_weights(p) ==
    LET pw == [i \in DOMAIN p |-> RatPow(p[i], power_num)]
        power_sum == RatSum(pw)
    IN  [i \in DOMAIN p |-> RatDiv(pw[i], power_sum)]

argmaxLast(nums) ==
    SetMax({i \in DOMAIN nums : \A j \in DOMAIN nums : nums[j] <= nums[i]})

\* np.argmax: the first index holding the maximum
argmax(nums) ==
    SetMin({i \in DOMAIN nums : \A j \in DOMAIN nums : nums[j] <= nums[i]})

\* the order-preserving counts a sampled prediction can reach on test_y
ReachableCounts(test_y) == {c[1] : c \in ReachablePreorder(test_y)}

\* rank_loss_prob: the indices max_id can take in one Monte-Carlo sample
PossibleMaxIds(test_y) ==
    LET K == s_max + 1
        counts == ReachableCounts(test_y)
        last == IF TooFewForCV(test_y) THEN {0} ELSE counts
    IN  {argmax(Append(lower, l)) : lower \in SeqsOfLen(counts, K - 1), l \in last}

\* min_probability_array after sample_num samples: position i .. K, `left` samples to place
RECURSIVE TallySet(_, _, _, _)
TallySet(i, K, left, allowed) ==
    IF i > K THEN (IF left = 0 THEN {<<>>} ELSE {})
    ELSE LET opts == IF i \in allowed THEN 0 .. left ELSE {0}
         IN  UNION {{<<a>> \o t : t \in TallySet(i + 1, K, left - a, allowed)} : a \in opts}

\* new_weights = np.array(min_probability_array) / sample_num
prob_weights(tally) == [i \in DOMAIN tally |-> Rat(tally[i], sample_num)]

\* old_weights: the current weight of every budget of r_list
old_weights == [i \in 1 .. s_max + 1 |-> surrogate_weight[iterate_r[i]]]

install_weights_without_snapshot(new_weights, branch, p) ==
    /\ surrogate_weight' = [r \in Ladder |-> new_weights[get_rung_id(create_bracket, r)]]
    /\ weight_changed_cnt' = weight_changed_cnt + 1
    /\ hist_weights' = (IF branch = "retain" THEN hist_weights
                        ELSE Append(hist_weights, new_weights))
    /\ uw' = [cnt |-> weight_changed_cnt + 1, branch |-> branch,
              n_top |-> Len(target_y[max_r]), old |-> old_weights, p |-> p]

\* the tail of update_weight: assign, count, append to hist_weights
install_weights(new_weights, branch, p) ==
    /\ surrogate_weight' = [r \in Ladder |-> new_weights[get_rung_id(create_bracket, r)]]
    /\ weight_changed_cnt' = weight_changed_cnt + 1
    /\ hist_weights' = Append(hist_weights, new_weights)
    /\ uw' = [cnt |-> weight_changed_cnt + 1, branch |-> branch,
              n_top |-> Len(target_y[max_r]), old |-> old_weights, p |-> p]

update_weight ==
    LET test_y == target_y[max_r]
        K == s_max + 1
    IN  IF EnoughTopData(test_y)
        THEN IF weight_method = "rank_loss_p_norm"
             THEN \E nums \in SeqsOfLen(ReachablePreorder(test_y), K - 1) :
                  \E cv_num \in (IF TooFewForCV(test_y) THEN {<<>>}
                                  ELSE ReachablePreorder(test_y)) :
                      LET p == preserving_order_p(nums, cv_num, test_y)
                      IN  install_weights(p_norm_weights(p), "p_norm", p)
             ELSE \E tally \in TallySet(1, K, sample_num, PossibleMaxIds(test_y)) :
                      install_weights(prob_weights(tally), "prob", tally)
        ELSE install_weights(old_weights, "retain", <<>>)

(* ---------------------- get_job and choose_next ------------------------- *)

IsDone(job) == job.status \in {COMPLETED, PROMOTED}

NumDone(jobs) == Cardinality({i \in 1 .. Len(jobs) : IsDone(jobs[i])})

\* number of done jobs of the rung ranked before job i (lower loss, then earlier)
RankOf(jobs, i) ==
    Cardinality({j \in 1 .. Len(jobs) :
        /\ IsDone(jobs[j])
        /\ \/ jobs[j].perf < jobs[i].perf
           \/ jobs[j].perf = jobs[i].perf /\ j < i})

\* completed, not yet promoted, in the top floor(n_done / eta)
Promotable(jobs) ==
    {i \in 1 .. Len(jobs) :
        jobs[i].status = COMPLETED /\ RankOf(jobs, i) < NumDone(jobs) \div eta}

PromotableRungs == {k \in 1 .. s_max : Promotable(bracket[k].jobs) # {}}

LastPromotable(jobs) ==
    CHOOSE i \in Promotable(jobs) : \A j \in Promotable(jobs) : RankOf(jobs, j) <= RankOf(jobs, i)

BestPromotable(jobs) ==
    CHOOSE i \in Promotable(jobs) : \A j \in Promotable(jobs) : RankOf(jobs, i) <= RankOf(jobs, j)

\* sample_configuration: any configuration of the space that is not excluded
sample_configuration(excluded_configs) == config_space \ excluded_configs

FirstNewUnchecked(acq_configs, rung_configs) ==
    IF acq_configs = <<>> THEN 0 ELSE acq_configs[1]

\* the first candidate that is not in the rung's configs; 0 (None) if there is none
FirstNew(acq_configs, rung_configs) ==
    LET ok == {i \in 1 .. Len(acq_configs) : acq_configs[i] \notin rung_configs}
    IN  IF ok = {} THEN 0 ELSE acq_configs[SetMin(ok)]

\* random_configuration_chooser.check: rng.rand() < prob, rand() drawn from [0, 1)
ChooserCheck ==
    IF rand_prob = 0 THEN {FALSE}
    ELSE IF rand_prob = 100 THEN {TRUE}
    ELSE BOOLEAN

FreshPicksNoEmptyTest(rung_configs) ==
    LET random == {[config |-> c, src |-> "random"] : c \in sample_configuration(rung_configs)}
        fallback == {[config |-> c, src |-> "fallback"] : c \in sample_configuration(rung_configs)}
        hits == {FirstNew(cs, rung_configs) : cs \in SeqsUpTo(config_space, MaxCands)}
        bo == {[config |-> c, src |-> "bo"] : c \in hits \ {0}}
    IN  (IF TRUE \in ChooserCheck THEN random ELSE {})
        \cup (IF FALSE \in ChooserCheck
              THEN bo \cup (IF 0 \in hits THEN fallback ELSE {})
              ELSE {})

\* lines 149-167: the (config, source) pairs choose_next may return for a rung;
\* "bo" and "fallback" are the picks made after a call of get_bo_candidates
FreshPicks(rung_configs) ==
    LET random == {[config |-> c, src |-> "random"] : c \in sample_configuration(rung_configs)}
        fallback == {[config |-> c, src |-> "fallback"] : c \in sample_configuration(rung_configs)}
        hits == {FirstNew(cs, rung_configs) : cs \in SeqsUpTo(config_space, MaxCands)}
        bo == {[config |-> c, src |-> "bo"] : c \in hits \ {0}}
    IN  IF Len(target_y[max_r]) = 0 THEN random
        ELSE (IF TRUE \in ChooserCheck THEN random ELSE {})
             \cup (IF FALSE \in ChooserCheck
                   THEN bo \cup (IF 0 \in hits THEN fallback ELSE {})
                   ELSE {})

BudgetChangedAlways(next_n_iteration) == TRUE

\* `self.last_n_iteration != next_n_iteration`
BudgetChanged(next_n_iteration) == last_n_iteration # next_n_iteration

LearnerDueNoWarmup == update_enable

\* `self.update_enable and self.weight_update_id > self.s_max`
LearnerDue == update_enable /\ weight_update_id > s_max

\* lines 142-147 of choose_next
choose_next_weights(next_n_iteration) ==
    /\ IF BudgetChanged(next_n_iteration)
       THEN /\ IF LearnerDue THEN update_weight ELSE UNCHANGED weightVars
            /\ weight_update_id' = weight_update_id + 1
       ELSE UNCHANGED <<weightVars, weight_update_id>>
    /\ last_n_iteration' = next_n_iteration

NewJob(config) == [status |-> RUNNING, config |-> config, perf |-> None]

get_job ==
    IF PromotableRungs # {}
    THEN LET k == SetMax(PromotableRungs)
             i == BestPromotable(bracket[k].jobs)
             config == bracket[k].jobs[i].config
             n_iteration == bracket[k + 1].n_iteration
         IN  /\ choose_next_weights(n_iteration)
             /\ served' = Append(served, n_iteration)
             /\ bracket' = [bracket EXCEPT ![k].jobs[i].status = PROMOTED,
                                           ![k + 1].jobs = Append(@, NewJob(config)),
                                           ![k + 1].configs = @ \cup {config}]
             /\ last_call' = [NoCall EXCEPT !.op = "next", !.config = config,
                                !.n_iteration = n_iteration, !.src = "promoted",
                                !.wl = BudgetChanged(n_iteration) /\ LearnerDue]
    ELSE LET n_iteration == bracket[1].n_iteration
         IN  \E pick \in FreshPicks(bracket[1].configs) :
                /\ choose_next_weights(n_iteration)
                /\ served' = Append(served, n_iteration)
                /\ bracket' = [bracket EXCEPT ![1].jobs = Append(@, NewJob(pick.config)),
                                              ![1].configs = @ \cup {pick.config}]
                /\ last_call' = [NoCall EXCEPT !.op = "next", !.config = pick.config,
                                   !.n_iteration = n_iteration, !.src = pick.src,
                                   !.wl = BudgetChanged(n_iteration) /\ LearnerDue]

GetJob ==
    /\ get_job
    /\ UNCHANGED <<cfgVars, storeVars, obs_log, poVars, workerVars>>

Next == Observe \/ GetJob

Spec == Init /\ [][Next]_vars

(* ------- SpecWarm: the warm-up of the weight learner, from construction -------- *)

\* the smallest space in which the warm-up ends: eta configurations earn the
\* promotion to the top rung, one more is left for the fresh job after it;
\* update_enable on and off
InitWarm ==
    /\ R = 2
    /\ eta \in Etas
    /\ update_enable \in BOOLEAN
    /\ weight_method = "rank_loss_p_norm"
    /\ rand_prob = default_rand_prob
    /\ surrogate_weight = WeightsOf(default_init_weight)
    /\ config_space = 1 .. eta + 1
    /\ InitFresh
    /\ InitCommon
    /\ InitNoOrder

JobsIssued == SumSeq([k \in 1 .. Len(bracket) |-> Len(bracket[k].jobs)])

\* get_job, for the first MaxJobs jobs of the run
GetJobRun ==
    /\ JobsIssued < MaxJobs
    /\ GetJob

\* the result of a trial that is running is observed
ObserveResult ==
    \E config \in config_space, n_iteration \in Ladder, perf \in Losses :
        /\ ObserveAccepted(config, n_iteration)
        /\ update_observation(config, perf, n_iteration)
        /\ UNCHANGED <<cfgVars, weightVars, nextVars, served, poVars, workerVars>>

NextWarm == ObserveResult \/ GetJobRun

SpecWarm == InitWarm /\ [][NextWarm]_vars

(* ------------------ SpecWL: the weight learner alone -------------------- *)

\* The coordinator after a run that brought Len(ys) configurations to the top rung
\* with losses ys: n * eta^s_max fresh configurations 1, 2, ... were issued at rung 0
\* and observed in that order with loss 0; at every rung but the top one the first
\* 1/eta of the jobs (the top of the rung: equal losses rank by insertion) were
\* promoted once the rung was complete, and observed in that order, at the top rung
\* with the losses ys. get_job saw the budget change s_max + 1 times, the last
\* time with weight_update_id = s_max: update_weight has not run yet.
JobsIssuedAt(k, n) == n * Pow(eta, s_max + 1 - k)

RungAfterRun(k, ys) ==
    LET m == JobsIssuedAt(k, Len(ys))
    IN  [n_iteration |-> Pow(eta, k - 1),
         jobs |-> [i \in 1 .. m |->
                     IF k = s_max + 1
                     THEN [status |-> COMPLETED, config |-> i, perf |-> ys[i]]
                     ELSE [status |-> IF i <= JobsIssuedAt(k + 1, Len(ys))
                                      THEN PROMOTED ELSE COMPLETED,
                           config |-> i, perf |-> 0]],
         configs |-> 1 .. m]

StoreAfterRun(k, ys, field) ==
    LET rung == RungAfterRun(k, ys)
    IN  [i \in 1 .. Len(rung.jobs) |-> rung.jobs[i][field]]

\* the budgets get_job served in that run: rung by rung, one per job issued
RECURSIVE ServedAfterRun(_, _)
ServedAfterRun(k, ys) ==
    IF k > s_max + 1 THEN <<>>
    ELSE [i \in 1 .. JobsIssuedAt(k, Len(ys)) |-> Pow(eta, k - 1)] \o ServedAfterRun(k + 1, ys)

InitAfterRun(ys) ==
    /\ bracket = [k \in 1 .. s_max + 1 |-> RungAfterRun(k, ys)]
    /\ target_x = [r \in Ladder |-> StoreAfterRun(get_rung_id(create_bracket, r), ys, "config")]
    /\ target_y = [r \in Ladder |-> StoreAfterRun(get_rung_id(create_bracket, r), ys, "perf")]
    /\ incumbent_configs = (IF IsFullFidelity(max_r) THEN target_x[max_r] ELSE <<>>)
    /\ incumbent_perfs = (IF IsFullFidelity(max_r) THEN target_y[max_r] ELSE <<>>)
    /\ history_container = (IF IsFullFidelity(max_r)
                            THEN [i \in 1 .. Len(ys) |-> <<i, ys[i]>>] ELSE <<>>)
    /\ surrogate_train = [r \in Ladder |-> IF target_x[r] = <<>> THEN <<>>
                                            ELSE <<target_x[r], target_y[r]>>]
    /\ obs_log = [r \in Ladder |->
                     [i \in 1 .. Len(target_x[r]) |-> <<target_x[r][i], target_y[r][i]>>]]
    /\ last_n_iteration = (IF ys = <<>> THEN None ELSE max_r)
    /\ weight_update_id = (IF ys = <<>> THEN 0 ELSE s_max + 1)
    /\ served = ServedAfterRun(1, ys)

InitWL ==
    /\ R \in RsWL
    /\ eta \in Etas
    /\ update_enable = TRUE
    /\ weight_method \in WeightMethods
    /\ rand_prob = default_rand_prob
    /\ surrogate_weight \in {WeightsOf(default_init_weight), WeightsOf(user_init_weight)}
    /\ \E ys \in SeqsUpTo(Losses, MaxTop) :
          /\ config_space = 1 .. (JobsIssuedAt(1, Len(ys)) + NumConfigs)
          /\ InitAfterRun(ys)
    /\ InitCommon
    /\ InitNoOrder

\* ladders of more than two levels are explored for one invocation
UpdateWeight ==
    /\ weight_changed_cnt < (IF s_max > 1 THEN 1 ELSE MaxUpdates)
    /\ update_weight
    /\ last_call' = [NoCall EXCEPT !.op = "update_weight"]
    /\ UNCHANGED <<cfgVars, bracket, storeVars, nextVars, obs_log, served, poVars,
                   workerVars>>

NextWL == UpdateWeight

SpecWL == InitWL /\ [][NextWL]_vars

(* ----- SpecRun: the coordinator with every rand_prob and trials that time out ----- *)

\* from construction, or from the run that brought one configuration to the top
\* rung; the space holds eta configurations that no rung has seen, enough to earn
\* one more promotion
InitRun ==
    /\ R = 2
    /\ eta \in Etas
    /\ update_enable = TRUE
    /\ weight_method = "rank_loss_p_norm"
    /\ rand_prob \in RandProbs
    /\ surrogate_weight = WeightsOf(default_init_weight)
    /\ \E ys \in {<<>>} \cup {<<y>> : y \in Losses} :
          /\ config_space = 1 .. (JobsIssuedAt(1, Len(ys)) + eta)
          /\ InitAfterRun(ys)
    /\ InitCommon
    /\ InitNoOrder

\* a trial that timed out or failed is observed with the sentinel loss
ObserveTimeout ==
    \E config \in config_space, n_iteration \in Ladder :
        /\ ObserveAccepted(config, n_iteration)
        /\ update_observation(config, MAXINT, n_iteration)
        /\ UNCHANGED <<cfgVars, weightVars, nextVars, served, poVars, workerVars>>

NextRun == ObserveResult \/ ObserveTimeout \/ GetJob

SpecRun == InitRun /\ [][NextRun]_vars

(* ---- SpecS1: R = 9, eta = 3, after 9 completions at budget 1 with losses 0..8 ---- *)

S1_R == 9
S1_eta == 3
S1_completions == 9

\* the losses 0..8 in the order of the configurations 1..9: the ascending and the
\* descending order and a rotation of each
S1Shifts == {0, 4}

S1Orders ==
    {[i \in 1 .. S1_completions |-> (i - 1 + d) % S1_completions] : d \in S1Shifts}
    \cup {[i \in 1 .. S1_completions |-> (S1_completions - i + d) % S1_completions] :
             d \in S1Shifts}

\* get_job has issued the configurations 1..9 at rung 0 and update_observation has
\* completed them in that order with the losses ys; one configuration of the space
\* is left
InitS1 ==
    /\ R = S1_R
    /\ eta = S1_eta
    /\ update_enable = TRUE
    /\ weight_method = "rank_loss_p_norm"
    /\ rand_prob = default_rand_prob
    /\ surrogate_weight = WeightsOf(default_init_weight)
    /\ config_space = 1 .. S1_completions + 1
    /\ \E ys \in S1Orders :
          /\ bracket = [k \in 1 .. s_max + 1 |->
                IF k = 1
                THEN [n_iteration |-> 1,
                      jobs |-> [i \in 1 .. S1_completions |->
                                  CompleteJob(NewJob(i), ys[i])],
                      configs |-> 1 .. S1_completions]
                ELSE create_bracket[k]]
          /\ target_x = [r \in Ladder |-> IF r = 1 THEN [i \in 1 .. S1_completions |-> i]
                                           ELSE <<>>]
          /\ target_y = [r \in Ladder |-> IF r = 1 THEN ys ELSE <<>>]
    /\ incumbent_configs = <<>>
    /\ incumbent_perfs = <<>>
    /\ history_container = <<>>
    /\ surrogate_train = [r \in Ladder |-> IF r = 1 THEN <<target_x[r], target_y[r]>>
                                            ELSE <<>>]
    /\ obs_log = [r \in Ladder |->
                     [i \in 1 .. Len(target_x[r]) |-> <<target_x[r][i], target_y[r][i]>>]]
    /\ last_n_iteration = 1
    /\ weight_update_id = 1
    /\ served = [i \in 1 .. S1_completions |-> 1]
    /\ InitCommon
    /\ InitNoOrder

\* get_job, for the first MaxJobs calls after the 9 completions
GetJobS1 ==
    /\ Len(served) < S1_completions + MaxJobs
    /\ GetJob

NextS1 == ObserveResult \/ GetJobS1

SpecS1 == InitS1 /\ [][NextS1]_vars

(* ------------ SpecOrder: calculate_preserving_order_num alone ----------- *)

InitOrder ==
    /\ R = 2
    /\ eta = 2
    /\ update_enable = TRUE
    /\ weight_method = "rank_loss_p_norm"
    /\ rand_prob = default_rand_prob
    /\ surrogate_weight = WeightsOf(default_init_weight)
    /\ InitEmpty
    /\ InitCommon
    /\ \E n \in 0 .. MaxLen :
          /\ po_pred \in SeqsOfLen(PredVals, n)
          /\ po_true \in SeqsOfLen(Losses, n)
    /\ po_out = <<>>

CallOrder ==
    /\ po_out = <<>>
    /\ po_out' = calculate_preserving_order_num(po_pred, po_true)
    /\ last_call' = [NoCall EXCEPT !.op = "calculate_preserving_order_num"]
    /\ UNCHANGED <<cfgVars, bracket, storeVars, weightVars, nextVars, obs_log,
                   served, po_pred, po_true, workerVars>>

NextOrder == CallOrder

SpecOrder == InitOrder /\ [][NextOrder]_vars

(* ------------- SpecWorker: start_computation calls on one Worker ------------- *)

\* the timeout argument: None, or a number of seconds
Timeouts == {None, 1}

InitWorkerSpec ==
    /\ R = 2
    /\ eta = 2
    /\ update_enable = TRUE
    /\ weight_method = "rank_loss_p_norm"
    /\ rand_prob = default_rand_prob
    /\ surrogate_weight = WeightsOf(default_init_weight)
    /\ InitEmpty
    /\ InitCounters
    /\ InitNoOrder
    /\ \E t \in Timeouts : InitWorker(t)

MustWaitNever == FALSE

\* `while self.busy`
MustWait == busy

\* lines 170-173 from the top, or again after a wake-up: holding the lock of
\* thread_cond, wait (releasing the lock) while busy, else set busy
TakeWorker(c) ==
    IF MustWait
    THEN /\ pc' = [pc EXCEPT ![c] = "waiting"]
         /\ UNCHANGED busy
    ELSE /\ pc' = [pc EXCEPT ![c] = "cancel"]
         /\ busy' = TRUE

\* a start_computation call arrives (the daemon serves calls until it is shut down)
Enter(c) ==
    /\ pc[c] = "new"
    /\ ~shut_down
    /\ TakeWorker(c)
    /\ UNCHANGED <<timeout, timer, timers, results, compute_out, shut_down>>

\* a notified waiter returns from thread_cond.wait() with the lock and tests busy again
Wake(c) ==
    /\ pc[c] = "notified"
    /\ TakeWorker(c)
    /\ UNCHANGED <<timeout, timer, timers, results, compute_out, shut_down>>

\* timer.cancel(): a timer that has not fired yet never will
CancelledTimers(ts, t) ==
    [ts EXCEPT ![t] = IF @ = "armed" THEN "cancelled" ELSE @]

\* lines 174-180: cancel the timer self.timer refers to, then call compute
StartCompute(c) ==
    /\ pc[c] = "cancel"
    /\ timers' = (IF timeout # None /\ timer # None
                  THEN CancelledTimers(timers, timer) ELSE timers)
    /\ pc' = [pc EXCEPT ![c] = "computing"]
    /\ UNCHANGED <<timeout, busy, timer, results, compute_out, shut_down>>

\* compute returns a result or raises an Exception
EndCompute(c) ==
    /\ pc[c] = "computing"
    /\ \E out \in {"returned", "raised"} :
          compute_out' = [compute_out EXCEPT ![c] = out]
    /\ pc' = [pc EXCEPT ![c] = "finally"]
    /\ UNCHANGED <<timeout, busy, timer, timers, results, shut_down>>

ResultWithoutError(out) == [result |-> "result", exception |-> "None"]

\* lines 180-183: the dictionary handed to the callback
Result(out) ==
    IF out = "returned"
    THEN [result |-> "result", exception |-> "None"]
    ELSE [result |-> "None", exception |-> "traceback"]

\* thread_cond.notify(): wakes one waiting call, if there is one
Notified(w) ==
    IF w = 0 THEN pc ELSE [pc EXCEPT ![w] = "notified"]

Waiting == {c \in Calls : pc[c] = "waiting"}

\* lines 184-189, holding the lock: busy = False, register the result, notify; if
\* register_result raises, its exception leaves start_computation before notify
Register(c) ==
    /\ pc[c] = "finally"
    /\ busy' = FALSE
    /\ \/ /\ results' = [results EXCEPT ![c] = Append(@, Result(compute_out[c]))]
          /\ \E w \in (IF Waiting = {} THEN {0} ELSE Waiting) :
                pc' = [Notified(w) EXCEPT ![c] = "arm"]
       \/ /\ pc' = [pc EXCEPT ![c] = "failed"]
          /\ UNCHANGED results
    /\ UNCHANGED <<timeout, timer, timers, compute_out, shut_down>>

\* lines 190-195: start a new idle timer and return
ArmTimer(c) ==
    /\ pc[c] = "arm"
    /\ IF timeout # None
       THEN /\ timer' = c
            /\ timers' = [timers EXCEPT ![c] = "armed"]
       ELSE UNCHANGED <<timer, timers>>
    /\ pc' = [pc EXCEPT ![c] = "done"]
    /\ UNCHANGED <<timeout, busy, results, compute_out, shut_down>>

\* a timer that was started and not cancelled runs out: shutdown()
TimerFires(t) ==
    /\ timers[t] = "armed"
    /\ timers' = [timers EXCEPT ![t] = "fired"]
    /\ shut_down' = TRUE
    /\ UNCHANGED <<timeout, busy, timer, pc, results, compute_out>>

CallEnters == \E c \in Calls : Enter(c) /\ UNCHANGED coordVars
CallWakes == \E c \in Calls : Wake(c) /\ UNCHANGED coordVars
CallStartsCompute == \E c \in Calls : StartCompute(c) /\ UNCHANGED coordVars
CallEndsCompute == \E c \in Calls : EndCompute(c) /\ UNCHANGED coordVars
CallRegisters == \E c \in Calls : Register(c) /\ UNCHANGED coordVars
CallArmsTimer == \E c \in Calls : ArmTimer(c) /\ UNCHANGED coordVars
Shutdown == \E t \in Calls : TimerFires(t) /\ UNCHANGED coordVars

NextWorker ==
    \/ CallEnters
    \/ CallWakes
    \/ CallStartsCompute
    \/ CallEndsCompute
    \/ CallRegisters
    \/ CallArmsTimer
    \/ Shutdown

SpecWorker == InitWorkerSpec /\ [][NextWorker]_vars

\* the steps of a call that is inside start_computation: its thread is runnable at
\* each of them (a notified waiter gets the lock, which every holder releases; compute
\* terminates), so a step that stays possible is taken; no new call has to arrive and
\* no timer has to run out
CallProceeds(c) ==
    (Wake(c) \/ StartCompute(c) \/ EndCompute(c) \/ Register(c) \/ ArmTimer(c))
       /\ UNCHANGED coordVars

\* SpecWorker with every thread scheduled and every compute terminating
SpecWorkerFair ==
    InitWorkerSpec /\ [][NextWorker]_vars /\ \A c \in Calls : WF_vars(CallProceeds(c))

(* ============================== claims ================================= *)

\* the rung (1-based) of a ladder budget, by the ladder r_k = eta^(k-1)
RungOfBudget(n) == CHOOSE k \in 1 .. s_max + 1 : Pow(eta, k - 1) = n

JobsAt(n) == bracket[RungOfBudget(n)].jobs

\* the store D[r] as a sequence of (config, loss) pairs
D(r) == [i \in 1 .. Len(target_x[r]) |-> <<target_x[r][i], target_y[r][i]>>]

\* C1: a successful observe(config, loss, budget) finds, at the rung of that budget,
\* a job with that config that is RUNNING and leaves it COMPLETED with the loss
\* attached; no observe takes a COMPLETED or PROMOTED job back to RUNNING.
C1_ObserveCompletesRunningJob ==
    [][last_call'.op = "observe" =>
        /\ last_call'.ok =>
              \E i \in 1 .. Len(JobsAt(last_call'.n_iteration)) :
                 /\ JobsAt(last_call'.n_iteration)[i].config = last_call'.config
                 /\ JobsAt(last_call'.n_iteration)[i].status = RUNNING
                 /\ bracket'[RungOfBudget(last_call'.n_iteration)].jobs[i]
                      = [status |-> COMPLETED, config |-> last_call'.config,
                         perf |-> last_call'.perf]
        /\ \A k \in 1 .. s_max + 1 : \A i \in 1 .. Len(bracket[k].jobs) :
              bracket[k].jobs[i].status \in {COMPLETED, PROMOTED}
                 => bracket'[k].jobs[i].status # RUNNING
    ]_vars

C1_Witness ==
    /\ last_call.op = "observe"
    /\ last_call.ok
    /\ \E i \in 1 .. Len(JobsAt(last_call.n_iteration)) :
          JobsAt(last_call.n_iteration)[i]
             = [status |-> COMPLETED, config |-> last_call.config, perf |-> last_call.perf]

\* C2: an observe succeeds only if the rung of its budget held a RUNNING job with its
\* config; an observe that fails leaves the bracket, the stores D, the incumbent
\* store, the history container and the surrogate as they were.
C2_FailedObserveChangesNothing ==
    [][last_call'.op = "observe" =>
        /\ last_call'.ok =>
              \E i \in 1 .. Len(JobsAt(last_call'.n_iteration)) :
                 /\ JobsAt(last_call'.n_iteration)[i].config = last_call'.config
                 /\ JobsAt(last_call'.n_iteration)[i].status = RUNNING
        /\ ~last_call'.ok =>
              UNCHANGED <<bracket, target_x, target_y, incumbent_configs, incumbent_perfs,
                          history_container, surrogate_train, surrogate_weight>>
    ]_vars

\* a second observe of a job that is already COMPLETED has been refused
C2_Witness ==
    /\ last_call.op = "observe"
    /\ ~last_call.ok
    /\ last_call.src = "assert _job_status == RUNNING"
    /\ \E r \in Ladder : Len(target_y[r]) > 0

\* C3: D[r] holds exactly one (config, loss) entry per job of budget r that reached
\* COMPLETED, nothing else, in the order the observes were applied.
C3_StoreMatchesCompletedJobs ==
    \A r \in Ladder :
        /\ Len(target_x[r]) = Len(target_y[r])
        /\ D(r) = obs_log[r]
        /\ \A i \in 1 .. Len(JobsAt(r)) :
              JobsAt(r)[i].status \in {COMPLETED, PROMOTED} =>
                 Cardinality({e \in 1 .. Len(target_x[r]) :
                     D(r)[e] = <<JobsAt(r)[i].config, JobsAt(r)[i].perf>>}) = 1
        /\ \A e \in 1 .. Len(target_x[r]) :
              \E i \in 1 .. Len(JobsAt(r)) :
                 /\ JobsAt(r)[i].status \in {COMPLETED, PROMOTED}
                 /\ D(r)[e] = <<JobsAt(r)[i].config, JobsAt(r)[i].perf>>

\* two jobs of one rung were observed in the opposite order of their issue
C3_Witness ==
    \E r \in Ladder :
        /\ Len(target_x[r]) >= 2
        /\ Len(JobsAt(r)) >= 2
        /\ target_x[r][1] = JobsAt(r)[2].config
        /\ target_x[r][2] = JobsAt(r)[1].config

NumWithStatus(jobs, statuses) ==
    Cardinality({i \in 1 .. Len(jobs) : jobs[i].status \in statuses})

\* C4 as stated: at every rung the number of jobs whose status is COMPLETED equals
\* the number of successful observes that targeted the rung.
C4_CompletedCountAsStated ==
    \A r \in Ladder : NumWithStatus(JobsAt(r), {COMPLETED}) = Len(obs_log[r])

\* C4 amended: at every rung the number of jobs whose status is COMPLETED or PROMOTED
\* equals the number of successful observes that targeted the rung.
C4_DoneCountEqualsObserves ==
    \A r \in Ladder : NumWithStatus(JobsAt(r), {COMPLETED, PROMOTED}) = Len(obs_log[r])

C4_Witness ==
    \E r \in Ladder :
        /\ NumWithStatus(JobsAt(r), {PROMOTED}) >= 1
        /\ NumWithStatus(JobsAt(r), {COMPLETED}) >= 1
        /\ Len(obs_log[r]) >= 2

\* C5: the incumbent store and the history container hold exactly the entries of
\* D[R_top], R_top = eta^s_max, for every R; so the history container is non-empty
\* whenever D[R_top] is.
C5_IncumbentsAreTopStore ==
    /\ incumbent_configs = target_x[Pow(eta, s_max)]
    /\ incumbent_perfs = target_y[Pow(eta, s_max)]
    /\ history_container = D(Pow(eta, s_max))
    /\ (target_y[Pow(eta, s_max)] # <<>> => history_container # <<>>)

IsFinite(w) == w[2] # 0

\* the sum of a sequence of finite fractions, as <<num, den>> (not reduced)
RECURSIVE FracSum(_)
FracSum(ws) ==
    IF ws = <<>> THEN <<0, 1>>
    ELSE LET t == FracSum(Tail(ws))
         IN  <<Head(ws)[1] * t[2] + t[1] * Head(ws)[2], Head(ws)[2] * t[2]>>

CurrentWeights == [k \in 1 .. s_max + 1 |-> surrogate_weight[Pow(eta, k - 1)]]

C8_TooFewTopDataRetainsWeights ==
    (uw.cnt > 0 /\ uw.n_top < 3)
        => /\ CurrentWeights = uw.old
           /\ weight_changed_cnt = uw.cnt
           /\ hist_weights[Len(hist_weights)] = uw.old

C8_Witness ==
    /\ uw.cnt > 0
    /\ uw.n_top = 2
    /\ weight_method = "rank_loss_prob"
    /\ CurrentWeights = [k \in 1 .. s_max + 1 |-> IF k = 1 THEN <<1, 2>> ELSE Rat(1, 2 * s_max)]

Sign(x) == IF x > 0 THEN 1 ELSE IF x < 0 THEN -1 ELSE 0

\* pairs i < j on which prediction and truth differ with the same sign
SignAgreeingPairs(y_pred, y_true) ==
    Cardinality({pr \in (1 .. Len(y_pred)) \X (1 .. Len(y_pred)) :
        /\ pr[1] < pr[2]
        /\ Sign(y_pred[pr[1]] - y_pred[pr[2]]) = Sign(y_true[pr[1]] - y_true[pr[2]])})

\* C9: calculate_preserving_order_num returns the number of pairs i < j with
\* sign(y_pred_i - y_pred_j) = sign(y_true_i - y_true_j), and the number of pairs
\* n(n-1)/2.
C9_CountsSignAgreeingPairs ==
    po_out # <<>> =>
        /\ po_out[1] = SignAgreeingPairs(po_pred, po_true)
        /\ po_out[2] = (Len(po_pred) * (Len(po_pred) - 1)) \div 2

\* p_k^P of every budget over one common denominator
ScaledPowers(p) ==
    LET RECURSIVE DenProd(_)
        DenProd(s) == IF s = <<>> THEN 1 ELSE Head(s)[2] * DenProd(Tail(s))
        L == DenProd(p)
    IN  [k \in 1 .. Len(p) |-> Pow(p[k][1] * (L \div p[k][2]), power_num)]

\* C10: rank_loss_p_norm with |Y_top| >= 3 and a non-zero denominator installs
\* w_r = p_r^P / sum_k p_k^P for every budget r.
C10_PNormWeights ==
    (/\ uw.branch = "p_norm"
     /\ uw.n_top >= 3
     /\ SumSeq(ScaledPowers(uw.p)) # 0)
        => \A k \in 1 .. s_max + 1 :
              /\ IsFinite(CurrentWeights[k])
              /\ CurrentWeights[k][1] * SumSeq(ScaledPowers(uw.p))
                    = CurrentWeights[k][2] * ScaledPowers(uw.p)[k]

\* two lower budgets with probabilities 1/3 and 2/3: weights 1/9 and 8/9
C10_Witness ==
    /\ uw.branch = "p_norm"
    /\ s_max = 2
    /\ uw.p = <<Rat(1, 3), Rat(2, 3), <<0, 1>>>>
    /\ CurrentWeights = <<Rat(1, 9), Rat(8, 9), <<0, 1>>>>

\* the budget-change boundaries in a sequence of served budgets; the first budget
\* served is one
Boundaries(bs) ==
    Cardinality({i \in 1 .. Len(bs) : i = 1 \/ bs[i] # bs[i - 1]})

\* this step is a next() call
IsNextStep == Len(served') = Len(served) + 1

\* the budget this next() call serves differs from the one served before
ServedChanged == served = <<>> \/ served'[Len(served')] # served[Len(served)]

\* this step ran the weight learner
LearnerInvoked == weight_changed_cnt' = weight_changed_cnt + 1

\* C11: the weight learner is not invoked by a next() before s_max + 1 budget-change
\* boundaries have been seen by earlier next() calls (the first call is a boundary);
\* once they have, with update_enable true, it is invoked by every next() whose budget
\* differs from the budget served before.
C11_LearnerOnlyAfterWarmup ==
    [][IsNextStep =>
        /\ LearnerInvoked => Boundaries(served) >= s_max + 1
        /\ (Boundaries(served) >= s_max + 1 /\ update_enable /\ ServedChanged)
              => LearnerInvoked
    ]_vars

\* the first next() after the warm-up that changes the budget has run the learner
C11_Witness ==
    /\ last_call.op = "next"
    /\ Boundaries(served) = s_max + 2
    /\ served[Len(served)] # served[Len(served) - 1]
    /\ weight_changed_cnt = 1
    /\ uw.cnt = 1

\* C19: a next() call adds exactly 1 to weight_update_id if the served budget differs
\* from last_budget_served and leaves it otherwise, so weight_update_id is the number
\* of budget changes seen; it invokes the weight learner iff the budget changed,
\* update_enable is true and weight_update_id before the call exceeds s_max; it
\* leaves last_budget_served at the served budget. With update_enable false the
\* weights and hist_weights never change.
C19_NextBookkeeping ==
    [][/\ IsNextStep =>
            /\ weight_update_id' = weight_update_id
                  + (IF served'[Len(served')] # last_n_iteration THEN 1 ELSE 0)
            /\ weight_update_id' >= weight_update_id
            /\ weight_update_id' = Boundaries(served')
            /\ LearnerInvoked <=>
                  (/\ served'[Len(served')] # last_n_iteration
                   /\ update_enable
                   /\ weight_update_id > s_max)
            /\ last_n_iteration' = served'[Len(served')]
       /\ ~IsNextStep => UNCHANGED <<weight_update_id, last_n_iteration>>
       /\ ~update_enable => UNCHANGED <<surrogate_weight, hist_weights>>
    ]_vars

\* with update_enable false a budget change after the warm-up has been served
C19_Witness ==
    /\ last_call.op = "next"
    /\ ~update_enable
    /\ weight_update_id = s_max + 2
    /\ hist_weights = <<>>
    /\ \E i \in 2 .. Len(served) : served[i] = served[i - 1]

\* the last step was a next() that returned a fresh configuration
FreshServed == last_call.op = "next" /\ last_call.src # "promoted"

\* C12: a fresh configuration served while D[R_top] is empty is drawn by random
\* sampling without a call of the acquisition optimizer, whatever rand_prob; with
\* rand_prob = 1.0 no next() ever calls the acquisition optimizer.
C12_NoAcquisitionCall ==
    /\ (FreshServed /\ target_y[Pow(eta, s_max)] = <<>>) => last_call.src = "random"
    /\ rand_prob = 100 => last_call.src \notin {"bo", "fallback"}

\* rand_prob = 1.0: a fresh configuration was served with top-fidelity data present
C12_Witness ==
    /\ FreshServed
    /\ rand_prob = 100
    /\ target_y[Pow(eta, s_max)] # <<>>
    /\ last_call.src = "random"

\* C13: a fresh configuration returned by next(), drawn at random, taken from the
\* acquisition candidates or drawn by the fallback, is not in the configs of the rung
\* it is issued for when it is returned.
C13_FreshConfigIsNew ==
    [][(IsNextStep /\ last_call'.src # "promoted") =>
          last_call'.config \notin bracket[RungOfBudget(last_call'.n_iteration)].configs
    ]_vars

\* the fallback served a configuration after the candidates were all in the rung
C13_Witness ==
    /\ FreshServed
    /\ last_call.src = "fallback"
    /\ Cardinality(bracket[1].configs) >= 3

\* C17: no entry of the incumbent store or of the history container carries the
\* sentinel loss of a trial that timed out or failed.
C17_SentinelNotIncumbent ==
    /\ \A i \in 1 .. Len(incumbent_perfs) : incumbent_perfs[i] # MAXINT
    /\ \A i \in 1 .. Len(history_container) : history_container[i][2] # MAXINT

\* the jobs of rung k that have been completed, promoted or not
DoneAt(k) == {j \in 1 .. Len(bracket[k].jobs) : bracket[k].jobs[j].status \in {COMPLETED, PROMOTED}}

\* promotion rule: job i of rung k is completed, not yet promoted, and fewer than
\* floor(n_completed / eta) completed jobs of the rung rank before it (lower loss,
\* or equal loss and earlier insertion)
EligibleAt(k, i) ==
    /\ bracket[k].jobs[i].status = COMPLETED
    /\ Cardinality({j \in DoneAt(k) :
          \/ bracket[k].jobs[j].perf < bracket[k].jobs[i].perf
          \/ bracket[k].jobs[j].perf = bracket[k].jobs[i].perf /\ j < i})
         < Cardinality(DoneAt(k)) \div eta

\* the configuration that completed rung 0 with the loss l
ConfigWithLoss(l) ==
    bracket[1].jobs[CHOOSE i \in 1 .. Len(bracket[1].jobs) : bracket[1].jobs[i].perf = l].config

C20_TopWeightZeroWithoutCV ==
    (/\ uw.cnt > 0
     /\ uw.n_top >= 3
     /\ uw.n_top < 2 * fold_num
     /\ s_max >= 1)
        => /\ uw.branch \in {"p_norm", "prob"}
           /\ uw.branch = "p_norm" =>
                 /\ uw.p[s_max + 1] = <<0, 1>>
                 /\ (\E k \in 1 .. s_max : uw.p[k][1] # 0)
                       => CurrentWeights[s_max + 1] = <<0, 1>>
           /\ uw.branch = "prob" =>
                 /\ uw.p[s_max + 1] = 0
                 /\ CurrentWeights[s_max + 1] = <<0, 1>>

\* rank_loss_prob on three top-fidelity observations: the lowest budget took every
\* sample and the top fidelity none
C20_Witness ==
    /\ uw.branch = "prob"
    /\ uw.n_top = 3
    /\ s_max >= 1
    /\ CurrentWeights[1] = <<1, 1>>
    /\ CurrentWeights[s_max + 1] = <<0, 1>>

Computing == {c \in Calls : pc[c] = "computing"}

\* C14: at most one start_computation call is executing compute at any moment, and
\* is_busy() is true whenever a compute is in progress.
C14_OneComputeAtATime ==
    /\ Cardinality(Computing) <= 1
    /\ Computing # {} => busy

\* one call computes while another waits for the worker
C14_Witness ==
    /\ Computing # {}
    /\ Waiting # {}
    /\ busy

\* C15: the call that leaves its compute sets busy to false and, the callback taking
\* the registration, registers exactly one result for its job id: the compute result
\* with exception None if compute returned, result None with the error text if it
\* raised; no call registers a second result, and an exception of compute does not
\* leave start_computation.
C15_OneResultPerCall ==
    [][\A c \in Calls :
         /\ (pc[c] = "finally" /\ pc'[c] # "finally") =>
               /\ busy' = FALSE
               /\ pc'[c] \in {"arm", "failed"}
               /\ pc'[c] = "arm" =>
                     results'[c] =
                        <<IF compute_out[c] = "returned"
                          THEN [result |-> "result", exception |-> "None"]
                          ELSE [result |-> "None", exception |-> "traceback"]>>
               /\ pc'[c] = "failed" => results'[c] = <<>>
         /\ pc[c] # "finally" => results'[c] = results[c]
         /\ pc[c] = "computing" => pc'[c] \in {"computing", "finally"}
    ]_vars

\* a call whose compute raised has returned after registering the error
C15_Witness ==
    \E c \in Calls :
        /\ pc[c] = "done"
        /\ compute_out[c] = "raised"
        /\ results[c] = <<[result |-> "None", exception |-> "traceback"]>>
        /\ ~busy

\* C16: the shutdown triggered by the idle timer never fires while a compute is in
\* progress, and with timeout = None the worker never shuts down on its own.
C16_NoShutdownDuringCompute ==
    [][/\ (~shut_down /\ shut_down') => Computing = {}
       /\ timeout = None => ~shut_down'
    ]_vars

\* the positions, over all rungs, of the jobs a step changes
ChangedJobs ==
    {ki \in UNION {{<<k, i>> : i \in 1 .. Len(bracket[k].jobs)} : k \in 1 .. s_max + 1} :
        \/ ki[2] > Len(bracket'[ki[1]].jobs)
        \/ bracket'[ki[1]].jobs[ki[2]] # bracket[ki[1]].jobs[ki[2]]}

\* what a successful observe(config, loss, budget) touches and what it leaves alone:
\* one job, at the rung of the budget, changes and only in status and loss; no jobs
\* list grows or shrinks and no configs set changes; D[budget] gains the entry at its
\* end and every other D[r'] stays; the weights, weight_update_id and
\* last_budget_served stay
ObserveFrame(config, perf, n) ==
    /\ \E i \in 1 .. Len(JobsAt(n)) :
          /\ ChangedJobs = {<<RungOfBudget(n), i>>}
          /\ JobsAt(n)[i].config = config
          /\ bracket'[RungOfBudget(n)].jobs[i]
                = [JobsAt(n)[i] EXCEPT !.status = COMPLETED, !.perf = perf]
    /\ \A k \in 1 .. s_max + 1 :
          /\ Len(bracket'[k].jobs) = Len(bracket[k].jobs)
          /\ bracket'[k].configs = bracket[k].configs
          /\ bracket'[k].n_iteration = bracket[k].n_iteration
    /\ target_x'[n] = Append(target_x[n], config)
    /\ target_y'[n] = Append(target_y[n], perf)
    /\ \A r \in Ladder \ {n} : target_x'[r] = target_x[r] /\ target_y'[r] = target_y[r]
    /\ UNCHANGED <<surrogate_weight, weight_update_id, last_n_iteration,
                   weight_changed_cnt, hist_weights>>

\* the incumbent store gains the entry when the budget is the top fidelity
\* eta^s_max and stays otherwise
ObserveIncumbent(config, perf, n) ==
    IF n = Pow(eta, s_max)
    THEN /\ incumbent_configs' = Append(incumbent_configs, config)
         /\ incumbent_perfs' = Append(incumbent_perfs, perf)
    ELSE UNCHANGED <<incumbent_configs, incumbent_perfs>>

\* at every rung configs is the set of the configs of jobs
ConfigsAreJobConfigs ==
    \A k \in 1 .. s_max + 1 :
        bracket[k].configs = {bracket[k].jobs[i].config : i \in 1 .. Len(bracket[k].jobs)}

\* C21: a successful observe(config, loss, budget) changes the status and loss of
\* exactly one job, at the rung of that budget, appends to D[budget] and, when the
\* budget is the top fidelity, to the incumbent store, and to nothing else: every
\* other job, every jobs list and configs set, every other D[r'], the ensemble
\* weights, weight_update_id and last_budget_served stay, and configs is the set of
\* the configs of jobs before and after.
C21_ObserveFrame ==
    [][(last_call'.op = "observe" /\ last_call'.ok) =>
          /\ ObserveFrame(last_call'.config, last_call'.perf, last_call'.n_iteration)
          /\ ObserveIncumbent(last_call'.config, last_call'.perf, last_call'.n_iteration)
          /\ ConfigsAreJobConfigs
          /\ ConfigsAreJobConfigs'
    ]_vars

\* the part of C21 that does not speak of the incumbent store
C21_FrameWithoutIncumbent ==
    [][(last_call'.op = "observe" /\ last_call'.ok) =>
          /\ ObserveFrame(last_call'.config, last_call'.perf, last_call'.n_iteration)
          /\ ConfigsAreJobConfigs
          /\ ConfigsAreJobConfigs'
    ]_vars

\* C22: every compute terminating, a start_computation call that is blocked waiting
\* for the busy Worker eventually starts its own computation and eventually hands its
\* result to the callback, also after an earlier compute raised or the callback
\* refused an earlier result: no waiter stays blocked for ever.
C22_WaiterEventuallyRuns ==
    \A c \in Calls :
        /\ (pc[c] = "waiting") ~> (pc[c] = "computing")
        /\ (pc[c] = "waiting") ~> (pc[c] \in {"arm", "done", "failed"})

\* this step is an invocation of the weight learner that completed: update_weight
\* called directly, or by a next() that found the learner due
LearnerCompleted ==
    \/ last_call'.op = "update_weight"
    \/ last_call'.op = "next" /\ last_call'.wl

\* C23: len(hist_weights) == weight_changed_cnt in every state; hist_weights only
\* grows, by appending; every invocation of the weight learner that completes appends
\* one snapshot, equal to the weights it installed, and adds one to
\* weight_changed_cnt, also when it retains the weights because |Y_top| < 3.
C23_OneSnapshotPerInvocation ==
    [][/\ Len(hist_weights) = weight_changed_cnt
       /\ Len(hist_weights') = weight_changed_cnt'
       /\ \/ UNCHANGED <<hist_weights, weight_changed_cnt>>
          \/ hist_weights' = Append(hist_weights, CurrentWeights')
       /\ LearnerCompleted =>
             /\ hist_weights' = Append(hist_weights, CurrentWeights')
             /\ weight_changed_cnt' = weight_changed_cnt + 1
    ]_vars

\* two invocations have completed, the second of them retaining the weights with
\* fewer than 3 top-fidelity losses
C23_Witness ==
    /\ uw.branch = "retain"
    /\ uw.n_top < min_top_data
    /\ weight_changed_cnt = 2
    /\ Len(hist_weights) = 2
    /\ hist_weights[2] = CurrentWeights
    /\ hist_weights[2] = uw.old

====
